---- MODULE Spec2Model ----
(***************************************************************************)
(* A model of gptransits/plot.py: plot_gp (the Gaussian-process fit plot   *)
(* and its zoom) and plot_psd (the power-spectral-density decomposition    *)
(* plot).  One call of one function is followed from entry to its return   *)
(* or to the exception that leaves it.  The collaborators of the file      *)
(* (the model object, LombScargle, the axes) are the environment: what     *)
(* they return is drawn from bounded sets at the line that asks for it,    *)
(* what is handed to the axes is recorded in the order of the calls.       *)
(*                                                                         *)
(* Model curves hold natural numbers.  The empirical curve is divided by   *)
(* the normalisation, so it holds exact rationals <<n, d>> in lowest       *)
(* terms; <<0, 0>> is the not-a-number that numpy yields for 0.0 / 0.0.    *)
(***************************************************************************)
EXTENDS Integers, Sequences, FiniteSets, TLC

(* ------------------------------ bounds --------------------------------- *)

\* Longest component list get_psd returns (specification Spec).
MaxComps == 2
\* Longest empirical spectrum autopower returns (specification SpecOverlay).
MaxData == 7
\* Most time samples of the model in a plot_psd call.
MaxSamples == 2
\* How far the sample count of a plot_gp call goes beyond the zoom length.
MaxBeyondZoom == 2

\* The lengths of the frequency grid of the model components.
GridSizes == {1, 2}
\* The values of a model power curve.
PowerVals == {0, 1}
\* The values of the observed flux.
FluxVals == {-1, 2}
\* The values of the raw empirical power, non-negative as the estimator's.
DataVals == {0, 1}

(* -------------------------- program constants -------------------------- *)

\* err[:150], model.time[:150], model.flux[:150]
ZoomLen == 150
\* Box1DKernel(10)
BoxWidth == 10
\* the stray positional argument of ax.loglog(freq2, power, 5, ...)
StrayValue == 5

KnownNames == {"Granulation", "OscillationBump", "WhiteNoise"}
\* A component name that is no key of the three dictionaries.
OtherNames == {"Other"}
Names == KnownNames \cup OtherNames

label_dict == [n \in KnownNames |->
                 CASE n = "Granulation" -> "Granulation"
                   [] n = "OscillationBump" -> "Gaussian envelope"
                   [] n = "WhiteNoise" -> "White noise"]

\* A plotting call made without label=.
NoLabel == "-"

(* ------------------------------ rationals ------------------------------ *)

Abs(n) == IF n < 0 THEN -n ELSE n

RECURSIVE GCD(_, _)
GCD(a, b) == IF b = 0 THEN a ELSE GCD(b, a % b)

NaN == <<0, 0>>
IsNaN(x) == x[2] = 0

\* n / d with d > 0, in lowest terms.
Norm(n, d) == LET g == GCD(Abs(n), d) IN <<n \div g, d \div g>>

Rat(n) == <<n, 1>>
RAdd(x, y) == IF IsNaN(x) \/ IsNaN(y) THEN NaN
              ELSE Norm(x[1] * y[2] + y[1] * x[2], x[2] * y[2])
RSub(x, y) == IF IsNaN(x) \/ IsNaN(y) THEN NaN
              ELSE Norm(x[1] * y[2] - y[1] * x[2], x[2] * y[2])
RMul(x, y) == IF IsNaN(x) \/ IsNaN(y) THEN NaN
              ELSE Norm(x[1] * y[1], x[2] * y[2])
\* x / y in floating point for x >= 0 and y >= 0 finite, where 0.0 / 0.0 is
\* nan; the curves divided here are non-negative, so x > 0 with y = 0 (inf)
\* does not arise: a sum of non-negative powers is 0 only if all are 0.
RDiv(x, y) == IF IsNaN(x) \/ IsNaN(y) \/ y[1] = 0 THEN NaN
              ELSE IF y[1] > 0 THEN Norm(x[1] * y[2], x[2] * y[1])
              ELSE Norm(-(x[1] * y[2]), x[2] * (-y[1]))

RECURSIVE RSum(_)
\* Python's sum(power): a left fold from 0.
RSum(s) == IF s = <<>> THEN Rat(0)
           ELSE RAdd(RSum(SubSeq(s, 1, Len(s) - 1)), s[Len(s)])

RECURSIVE ISum(_)
ISum(s) == IF s = <<>> THEN 0 ELSE ISum(SubSeq(s, 1, Len(s) - 1)) + s[Len(s)]

(* --------------------------- array operations -------------------------- *)

Min(a, b) == IF a < b THEN a ELSE b
Range(s) == {s[i] : i \in DOMAIN s}

\* np.zeros(n)
Zeros(n) == [i \in 1..n |-> 0]

\* s[:k]
Slice(s, k) == SubSeq(s, 1, Min(k, Len(s)))

\* a += p on arrays of one length
AddCurves(a, p) == [i \in DOMAIN a |-> a[i] + p[i]]

\* The sequences of length 0..n over S.
SeqsUpTo(S, n) == UNION {[1..k -> S] : k \in 0..n}

(* ------------------------------ plot_psd ------------------------------- *)

\* power += 0.0, in place on the model's array
WhiteNoiseAdjust_PlusOne(power) == [i \in DOMAIN power |-> power[i] + 1]
WhiteNoiseAdjust(power) == [i \in DOMAIN power |-> power[i] + 0]

\* The array the loop variable `power` names once line 86 has run.
Adjusted(name, power) ==
  IF name = "WhiteNoise" THEN WhiteNoiseAdjust(power) ELSE power

\* full_power += power
FullStep_SkipsBump(full, name, power) ==
  IF name # "OscillationBump" THEN AddCurves(full, power) ELSE full
FullStep(full, name, power) == AddCurves(full, power)

\* if name != "OscillationBump": nobump_power += power
NobumpStep_AddsAll(nobump, name, power) == AddCurves(nobump, power)
NobumpStep(nobump, name, power) ==
  IF name # "OscillationBump" THEN AddCurves(nobump, power) ELSE nobump

\* if label_dict[name] not in unique_labels: unique_labels.append(...)
LabelStep_AlwaysAppends(labels, name) == Append(labels, label_dict[name])
LabelStep(labels, name) ==
  IF label_dict[name] \notin Range(labels)
  THEN Append(labels, label_dict[name]) ELSE labels

\* The label= of the ax.loglog call of the component: set on the first branch
\* of the if, left out on the else branch.
DrawLabel_AlwaysLabels(labels, name) == label_dict[name]
DrawLabel(labels, name) ==
  IF label_dict[name] \notin Range(labels) THEN label_dict[name] ELSE NoLabel

\* np.var(model.flux): the mean of the squared deviations from the mean.
Variance(flux) ==
  LET n == Len(flux)
      mean == RDiv(Rat(ISum(flux)), Rat(n))
      dev2 == [i \in DOMAIN flux |->
                 RMul(RSub(Rat(flux[i]), mean), RSub(Rat(flux[i]), mean))]
  IN RDiv(RSum(dev2), Rat(n))

\* resolution = freq2[1] - freq2[0]
Resolution(freq2) == RSub(freq2[2], freq2[1])

\* power = (power * variance / sum(power)) / resolution
ParsevalNorm_NoResolution(power, flux, freq2) ==
  [i \in DOMAIN power |-> RDiv(RMul(power[i], Variance(flux)), RSum(power))]
ParsevalNorm(power, flux, freq2) ==
  [i \in DOMAIN power |->
     RDiv(RDiv(RMul(power[i], Variance(flux)), RSum(power)),
          Resolution(freq2))]

\* power = power / model.time.size
CeleriteNorm_BySpectrumSize(power, size) ==
  [i \in DOMAIN power |-> RDiv(power[i], Rat(Len(power)))]
CeleriteNorm(power, size) == [i \in DOMAIN power |-> RDiv(power[i], Rat(size))]

\* Box1DKernel(10) at offset d from its centre: the box of amplitude 1/width
\* discretized by linear interpolation on round-up-to-odd(width) bins, which
\* weights a bin the edge of the box cuts in two by one half.
KernelWeight_NoHalfEdge(d) ==
  IF 2 * Abs(d) <= BoxWidth THEN Norm(1, BoxWidth) ELSE Rat(0)
KernelWeight(d) ==
  IF 2 * Abs(d) < BoxWidth THEN Norm(1, BoxWidth)
  ELSE IF 2 * Abs(d) = BoxWidth THEN Norm(1, 2 * BoxWidth)
  ELSE Rat(0)

\* convolve(power, kernel) with astropy's defaults: boundary='fill' with
\* fill_value 0, so that the samples beyond either end count as 0, and
\* nan_treatment='interpolate', which has no finite sample to interpolate from
\* in an array that is nan throughout and leaves it nan.
Convolve(power) ==
  IF \E i \in DOMAIN power : IsNaN(power[i])
  THEN [i \in DOMAIN power |-> NaN]
  ELSE [i \in DOMAIN power |->
          RSum([j \in DOMAIN power |-> RMul(KernelWeight(j - i), power[j])])]

(* -------------------------------- state -------------------------------- *)

VARIABLES
  fn,             \* the function called, "" before the call
  pc,             \* where the call stands
  exc,            \* the exception that left the call, "" for none
  ret,            \* the figures returned, <<>> before the return
  \* plot_gp
  model_error,    \* model.error: [has |-> the attribute exists, val |-> it]
  time_size,      \* model.time.size (model.flux has the same size)
  err,            \* the local err: [none |-> it is None, val |-> the array]
  gp_drawn,       \* the calls made on ax, in order
  zoom_drawn,     \* the calls made on ax2, in order
  \* plot_psd
  include_data, parseval_norm,
  flux,           \* model.flux
  freq_size,      \* freq.size, the length of the model's frequency grid
  power_in,       \* the component list as get_psd returned it
  power_list,     \* the component list, its arrays as they are now
  idx,            \* the number of components the loop has taken
  nobump_power, full_power, unique_labels,
  freq2,          \* the frequency grid autopower returned
  ls_power,       \* the power autopower returned
  power,          \* the local power from line 107 on
  drawn           \* the calls made on ax, in order

gp_vars == <<model_error, time_size, err, gp_drawn, zoom_drawn>>
psd_in == <<include_data, parseval_norm, flux, freq_size, power_in>>
psd_loop == <<power_list, idx, nobump_power, full_power, unique_labels>>
psd_data == <<freq2, ls_power, power>>
vars == <<fn, pc, exc, ret, gp_vars, psd_in, psd_loop, psd_data, drawn>>

None == [none |-> TRUE, val |-> <<>>]
Some(a) == [none |-> FALSE, val |-> a]

Init ==
  /\ fn = "" /\ pc = "idle" /\ exc = "" /\ ret = <<>>
  /\ model_error = [has |-> FALSE, val |-> <<>>]
  /\ time_size = 0 /\ err = None /\ gp_drawn = <<>> /\ zoom_drawn = <<>>
  /\ include_data = FALSE /\ parseval_norm = FALSE
  /\ flux = <<>> /\ freq_size = 0
  /\ power_in = <<>> /\ power_list = <<>> /\ idx = 0
  /\ nobump_power = <<>> /\ full_power = <<>> /\ unique_labels = <<>>
  /\ freq2 = <<>> /\ ls_power = <<>> /\ power = <<>> /\ drawn = <<>>

(* ------------------------------- plot_gp ------------------------------- *)

\* The sample counts of a plot_gp call: a few, and those about the zoom length.
GpSizes == (1..2) \cup ((ZoomLen - 1)..(ZoomLen + MaxBeyondZoom))
\* The per-sample errors of a model of n samples, all different.
GpErrors(n) == {[i \in 1..n |-> k * i] : k \in 1..2}

\* ax.errorbar(x, y, yerr=yerr) on x and y of n points: one error per point.
ErrorbarFits(n, yerr) == yerr.none \/ Len(yerr.val) = n

\* A call of plot_gp on a model with or without the attribute error.
PlotGpCall ==
  /\ pc = "idle"
  /\ \E n \in GpSizes :
       /\ time_size' = n
       /\ \/ model_error' = [has |-> FALSE, val |-> <<>>]
          \/ \E e \in GpErrors(n) : model_error' = [has |-> TRUE, val |-> e]
  /\ fn' = "plot_gp" /\ pc' = "gp_try"
  /\ UNCHANGED <<exc, ret, err, gp_drawn, zoom_drawn,
                 psd_in, psd_loop, psd_data, drawn>>

\* try: err = model.error / except AttributeError: err = None
GpFetchErr_NoFallback ==
  /\ pc = "gp_try"
  /\ IF model_error.has
     THEN err' = Some(model_error.val) /\ pc' = "gp_full" /\ exc' = exc
     ELSE err' = err /\ pc' = "failed" /\ exc' = "AttributeError"
  /\ UNCHANGED <<fn, ret, model_error, time_size, gp_drawn, zoom_drawn,
                 psd_in, psd_loop, psd_data, drawn>>
GpFetchErr ==
  /\ pc = "gp_try"
  /\ err' = IF model_error.has THEN Some(model_error.val) ELSE None
  /\ pc' = "gp_full"
  /\ UNCHANGED <<fn, exc, ret, model_error, time_size, gp_drawn, zoom_drawn,
                 psd_in, psd_loop, psd_data, drawn>>

\* The full-range plot: the data with its errors, then the predictive mean and
\* its band on x of 2 * model.time.size points.
GpFullPlot ==
  /\ pc = "gp_full"
  /\ IF ErrorbarFits(time_size, err)
     THEN /\ gp_drawn' = <<[kind |-> "errorbar", size |-> time_size, yerr |-> err],
                           [kind |-> "plot", size |-> 2 * time_size, yerr |-> None],
                           [kind |-> "fill_between", size |-> 2 * time_size,
                            yerr |-> None]>>
          /\ pc' = "gp_slice" /\ exc' = exc
     ELSE gp_drawn' = gp_drawn /\ pc' = "failed" /\ exc' = "ValueError"
  /\ UNCHANGED <<fn, ret, model_error, time_size, err, zoom_drawn,
                 psd_in, psd_loop, psd_data, drawn>>

\* if err is not None: err = err[:150]
GpSliceErr ==
  /\ pc = "gp_slice"
  /\ err' = IF ~err.none THEN Some(Slice(err.val, ZoomLen)) ELSE err
  /\ pc' = "gp_zoom"
  /\ UNCHANGED <<fn, exc, ret, model_error, time_size, gp_drawn, zoom_drawn,
                 psd_in, psd_loop, psd_data, drawn>>

\* The zoomed plot: the first 150 samples with their errors, the first 300
\* points of the predictive mean and of its band.
GpZoomPlot ==
  /\ pc = "gp_zoom"
  /\ LET n == Min(ZoomLen, time_size)
         m == Min(2 * ZoomLen, 2 * time_size)
     IN IF ErrorbarFits(n, err)
        THEN /\ zoom_drawn' = <<[kind |-> "errorbar", size |-> n, yerr |-> err],
                                [kind |-> "plot", size |-> m, yerr |-> None],
                                [kind |-> "fill_between", size |-> m,
                                 yerr |-> None]>>
             /\ pc' = "gp_return" /\ exc' = exc
        ELSE zoom_drawn' = zoom_drawn /\ pc' = "failed" /\ exc' = "ValueError"
  /\ UNCHANGED <<fn, ret, model_error, time_size, err, gp_drawn,
                 psd_in, psd_loop, psd_data, drawn>>

\* return gp_plot, zoom_plot
GpReturn ==
  /\ pc = "gp_return"
  /\ ret' = <<"gp_plot", "zoom_plot">>
  /\ pc' = "done"
  /\ UNCHANGED <<fn, exc, gp_vars, psd_in, psd_loop, psd_data, drawn>>

(* ------------------------------- plot_psd ------------------------------ *)

\* What get_psd may return on a grid of n points: up to maxc named curves.
Curves(n) == [1..n -> PowerVals]
Components(n) == [name : Names, power : Curves(n)]
PsdLists(maxc) ==
  UNION {[size : {n}, comps : SeqsUpTo(Components(n), maxc)] : n \in GridSizes}
\* A few of them: no component, a known one, an unknown one.
PsdListsFew ==
  {[size |-> 2, comps |-> <<>>],
   [size |-> 2, comps |-> <<[name |-> "WhiteNoise", power |-> <<1, 0>>]>>],
   [size |-> 2, comps |-> <<[name |-> "Other", power |-> <<0, 1>>]>>]}

\* The observed flux: 1..maxn samples.
Fluxes(maxn) == UNION {[1..n -> FluxVals] : n \in 1..maxn}
FluxesFew == {<<-1, 2>>}

\* What autopower may return: a uniform grid of 1..maxl frequencies and a
\* non-negative power at each.
Resolutions == {<<1, 2>>, <<2, 1>>}
Grid(l, df) == [i \in 1..l |-> RMul(Rat(i), df)]
Spectra(maxl) ==
  UNION {[freq : {Grid(l, df)}, power : [1..l -> {Rat(v) : v \in DataVals}]] :
           l \in 1..maxl, df \in Resolutions}
SpectraFew ==
  UNION {[freq : {Grid(l, Rat(1))}, power : [1..l -> {Rat(v) : v \in DataVals}]] :
           l \in 1..2}

\* One ax.loglog call.
Draw(kind, y, label) == [kind |-> kind, y |-> y, label |-> label]

\* plot_psd up to the loop: the dictionaries, get_psd, the two aggregates at
\* zero, the axes, no label yet.
PlotPsdCall(lists, fluxes) ==
  /\ pc = "idle"
  /\ \E inc \in BOOLEAN, par \in BOOLEAN, l \in lists, f \in fluxes :
       /\ include_data' = inc /\ parseval_norm' = par
       /\ flux' = f
       /\ freq_size' = l.size
       /\ power_in' = l.comps /\ power_list' = l.comps
       /\ nobump_power' = Zeros(l.size)
       /\ full_power' = Zeros(l.size)
  /\ unique_labels' = <<>> /\ idx' = 0
  /\ fn' = "plot_psd" /\ pc' = "psd_loop"
  /\ UNCHANGED <<exc, ret, gp_vars, psd_data, drawn>>

\* One pass of the loop over a component whose name the dictionaries hold.
LoopIter ==
  /\ pc = "psd_loop" /\ idx < Len(power_list)
  /\ LET k == idx + 1
         name == power_list[k].name
         p == Adjusted(name, power_list[k].power)
     IN /\ name \in KnownNames
        /\ power_list' = [power_list EXCEPT ![k].power = p]
        /\ nobump_power' = NobumpStep(nobump_power, name, p)
        /\ full_power' = FullStep(full_power, name, p)
        /\ unique_labels' = LabelStep(unique_labels, name)
        /\ drawn' = Append(drawn, Draw("component", p,
                                        DrawLabel(unique_labels, name)))
        /\ idx' = k
  /\ UNCHANGED <<fn, pc, exc, ret, gp_vars, psd_in, psd_data>>

\* The pass over a component of another name: label_dict[name] raises KeyError
\* on line 91, after lines 85 to 89 have run.
LoopKeyError_LookupFirst ==
  /\ pc = "psd_loop" /\ idx < Len(power_list)
  /\ power_list[idx + 1].name \notin KnownNames
  /\ pc' = "failed" /\ exc' = "KeyError"
  /\ UNCHANGED <<fn, ret, gp_vars, psd_in, psd_loop, psd_data, drawn>>
LoopKeyError ==
  /\ pc = "psd_loop" /\ idx < Len(power_list)
  /\ LET k == idx + 1
         name == power_list[k].name
         p == Adjusted(name, power_list[k].power)
     IN /\ name \notin KnownNames
        /\ power_list' = [power_list EXCEPT ![k].power = p]
        /\ nobump_power' = NobumpStep(nobump_power, name, p)
        /\ full_power' = FullStep(full_power, name, p)
  /\ pc' = "failed" /\ exc' = "KeyError"
  /\ UNCHANGED <<fn, ret, gp_vars, psd_in, idx, unique_labels, psd_data, drawn>>

\* After the loop: the two aggregates are drawn, the axes are labelled.
PlotAggregates ==
  /\ pc = "psd_loop" /\ idx = Len(power_list)
  /\ drawn' = drawn \o <<Draw("aggregate", nobump_power, "Model without gaussian"),
                         Draw("aggregate", full_power, "Full Model")>>
  /\ pc' = "psd_if_data"
  /\ UNCHANGED <<fn, exc, ret, gp_vars, psd_in, psd_loop, psd_data>>

\* if include_data: the periodogram of the observed samples.
LombScargleStep(spectra) ==
  /\ pc = "psd_if_data" /\ include_data
  /\ \E s \in spectra :
       freq2' = s.freq /\ ls_power' = s.power /\ power' = s.power
  /\ pc' = "psd_norm"
  /\ UNCHANGED <<fn, exc, ret, gp_vars, psd_in, psd_loop, drawn>>

\* if parseval_norm: ... else: ...; freq2[1] raises IndexError on a grid of
\* one frequency.
Normalize_ScalesModel ==
  /\ pc = "psd_norm"
  /\ power' = CeleriteNorm(power, Len(flux))
  /\ full_power' = [i \in DOMAIN full_power |-> full_power[i] * Len(flux)]
  /\ pc' = "psd_plot_data"
  /\ UNCHANGED <<fn, exc, ret, gp_vars, psd_in, power_list, idx, nobump_power,
                 unique_labels, freq2, ls_power, drawn>>
Normalize ==
  /\ pc = "psd_norm"
  /\ IF parseval_norm
     THEN IF Len(freq2) < 2
          THEN power' = power /\ pc' = "failed" /\ exc' = "IndexError"
          ELSE /\ power' = ParsevalNorm(power, flux, freq2)
               /\ pc' = "psd_plot_data" /\ exc' = exc
     ELSE /\ power' = CeleriteNorm(power, Len(flux))
          /\ pc' = "psd_plot_data" /\ exc' = exc
  /\ UNCHANGED <<fn, ret, gp_vars, psd_in, psd_loop, freq2, ls_power, drawn>>

\* Lines 119 to 121: the normalised curve (with a stray third positional
\* argument, which the axes take as a second data set of one point), then the
\* normalised curve convolved with the box kernel.
PlotData ==
  /\ pc = "psd_plot_data"
  /\ drawn' = drawn \o <<Draw("data", power, NoLabel),
                         Draw("stray", <<StrayValue>>, NoLabel),
                         Draw("data", Convolve(power), NoLabel)>>
  /\ pc' = "psd_return"
  /\ UNCHANGED <<fn, exc, ret, gp_vars, psd_in, psd_loop, psd_data>>

\* The limits, the legend, return psd_plot.
PsdReturn ==
  /\ \/ pc = "psd_if_data" /\ ~include_data
     \/ pc = "psd_return"
  /\ ret' = <<"psd_plot">>
  /\ pc' = "done"
  /\ UNCHANGED <<fn, exc, gp_vars, psd_in, psd_loop, psd_data, drawn>>

(* ---------------------------- specifications --------------------------- *)

Next ==
  \/ PlotGpCall \/ GpFetchErr \/ GpFullPlot \/ GpSliceErr \/ GpZoomPlot
  \/ GpReturn
  \/ PlotPsdCall(PsdLists(MaxComps), FluxesFew)
  \/ LoopIter \/ LoopKeyError \/ PlotAggregates
  \/ LombScargleStep(SpectraFew)
  \/ Normalize \/ PlotData \/ PsdReturn

\* Any call of plot_gp or plot_psd; every component list, a few spectra.
Spec == Init /\ [][Next]_vars

NextOverlay ==
  \/ PlotPsdCall(PsdListsFew, Fluxes(MaxSamples))
  \/ LoopIter \/ LoopKeyError \/ PlotAggregates
  \/ LombScargleStep(Spectra(MaxData))
  \/ Normalize \/ PlotData \/ PsdReturn

\* The calls of plot_psd on a few component lists; every flux and spectrum.
SpecOverlay == Init /\ [][NextOverlay]_vars

(* ------------------------- what the claims use ------------------------- *)

\* The element-wise sum of the curves of the components that satisfy keep.
CurveSum(comps, n, keep(_)) ==
  [i \in 1..n |->
     ISum([k \in DOMAIN comps |->
             IF keep(comps[k].name) THEN comps[k].power[i] ELSE 0])]
AnyName(name) == TRUE
IsBump(name) == name = "OscillationBump"
NotBump(name) == name # "OscillationBump"

\* The loop has run to its end (it does so only over known names).
LoopDone == fn = "plot_psd" /\ idx = Len(power_in) /\ exc # "KeyError"
\* The two aggregates have been drawn.
AggregatesDrawn == LoopDone /\ (pc # "psd_loop")
\* The empirical curve has been normalised.
Normalized ==
  fn = "plot_psd" /\ include_data /\ pc \in {"psd_plot_data", "psd_return", "done"}
\* Component k is the first of its name.
FirstOfName(k) == \A j \in 1..(k - 1) : power_in[j].name # power_in[k].name

\* C1: in plot_psd, once the loop over components with known names has ended,
\* full_power has the length of the frequency grid and holds at every index
\* the sum of the values of all component curves there; for an empty
\* component list it is all zeros.
C1_FullPowerIsSum ==
  LoopDone =>
    /\ Len(full_power) = freq_size
    /\ \A i \in 1..freq_size :
         full_power[i] = ISum([k \in DOMAIN power_in |-> power_in[k].power[i]])
    /\ (power_in = <<>> => \A i \in 1..freq_size : full_power[i] = 0)

C1_Witness ==
  /\ LoopDone /\ pc = "done" /\ Len(power_in) = 2
  /\ power_in[1].name = "OscillationBump" /\ power_in[2].name = "WhiteNoise"
  /\ power_in[1].power = <<1, 0>> /\ power_in[2].power = <<1, 1>>
  /\ full_power = <<2, 1>>

\* C2: after the loop nobump_power is full_power minus every curve named
\* OscillationBump, is full_power itself when no component has that name, and
\* is nowhere above full_power.
C2_NobumpIsFullMinusBump ==
  LoopDone =>
    LET bump == CurveSum(power_in, freq_size, IsBump)
    IN /\ Len(nobump_power) = freq_size
       /\ \A i \in 1..freq_size : nobump_power[i] = full_power[i] - bump[i]
       /\ ((\A k \in DOMAIN power_in : NotBump(power_in[k].name))
             => nobump_power = full_power)
       /\ \A i \in 1..freq_size : nobump_power[i] <= full_power[i]

C2_Witness ==
  /\ LoopDone /\ Len(power_in) = 2
  /\ power_in[1].name = "OscillationBump" /\ power_in[2].name = "OscillationBump"
  /\ full_power = <<2, 1>> /\ nobump_power = <<0, 0>>

\* C3: at every point of the loop the recorded labels hold no duplicate and
\* are the labels of the names taken so far; every component taken has been
\* drawn with its own curve, the first of each name with the label of the name
\* and every later one without a label.
C3_OneLabelPerName ==
  fn = "plot_psd" =>
    /\ \A i, j \in DOMAIN unique_labels :
         i # j => unique_labels[i] # unique_labels[j]
    /\ Range(unique_labels) = {label_dict[power_in[k].name] : k \in 1..idx}
    /\ \A k \in 1..idx :
         /\ drawn[k].kind = "component"
         /\ drawn[k].y = power_in[k].power
         /\ drawn[k].label =
              IF FirstOfName(k) THEN label_dict[power_in[k].name] ELSE NoLabel
    /\ \A k \in 1..idx :
         Cardinality({j \in 1..idx :
                        drawn[j].label = label_dict[power_in[k].name]}) = 1

C3_Witness ==
  /\ fn = "plot_psd" /\ pc = "done" /\ idx = 2
  /\ power_in[1].name = "Granulation" /\ power_in[2].name = "Granulation"
  /\ unique_labels = <<"Granulation">>
  /\ drawn[1].label = "Granulation" /\ drawn[2].label = NoLabel
  /\ drawn[2].y = <<0, 1>>

\* C7: whatever include_data and parseval_norm are, and whatever the empirical
\* spectrum is, the two aggregates that are drawn, the aggregates themselves
\* and the labelled component curves are those the components alone determine;
\* once the aggregates are drawn, computing, normalising and drawing the
\* empirical curve changes none of them, and the empirical curve is drawn
\* after them only.
C7_OverlayLeavesModelAlone ==
  AggregatesDrawn =>
    LET n == Len(power_in)
        nobump == CurveSum(power_in, freq_size, NotBump)
        full == CurveSum(power_in, freq_size, AnyName)
    IN /\ nobump_power = nobump /\ full_power = full
       /\ drawn[n + 1] = Draw("aggregate", nobump, "Model without gaussian")
       /\ drawn[n + 2] = Draw("aggregate", full, "Full Model")
       /\ {drawn[k] : k \in {j \in 1..n : drawn[j].label # NoLabel}}
            = {Draw("component", power_in[k].power, label_dict[power_in[k].name]) :
                 k \in {j \in 1..n : FirstOfName(j)}}
       /\ \A k \in DOMAIN drawn :
            drawn[k].kind \in {"data", "stray"} => include_data /\ k > n + 2
       /\ (~include_data => Len(drawn) = n + 2)

C7_Witness ==
  /\ AggregatesDrawn /\ pc = "done" /\ include_data /\ ~parseval_norm
  /\ Len(power_in) = 2 /\ full_power = <<2, 1>> /\ nobump_power = <<1, 1>>
  /\ Len(drawn) = 7 /\ drawn[5].y = <<<<1, 2>>, <<0, 1>>>>

\* C8: in plot_gp a model without the attribute error is no failure: err is
\* None exactly when the attribute is missing, the full-range plot gets the
\* errors as they are or none, the zoomed plot gets the first 150 of them or
\* none, no exception leaves the call and the call returns both figures.
C8_MissingErrorIsNoFailure ==
  fn = "plot_gp" =>
    /\ exc = "" /\ pc # "failed"
    /\ (pc # "gp_try" => (err.none <=> ~model_error.has))
    /\ (gp_drawn # <<>> =>
          gp_drawn[1].yerr =
            IF model_error.has THEN Some(model_error.val) ELSE None)
    /\ (zoom_drawn # <<>> =>
          zoom_drawn[1].yerr =
            IF model_error.has
            THEN Some([i \in 1..Min(ZoomLen, time_size) |-> model_error.val[i]])
            ELSE None)
    /\ (pc = "gp_return" => gp_drawn # <<>> /\ zoom_drawn # <<>>)
    /\ (pc = "done" => ret = <<"gp_plot", "zoom_plot">>)

C8_Witness ==
  /\ fn = "plot_gp" /\ pc = "done" /\ ~model_error.has
  /\ time_size > ZoomLen
  /\ gp_drawn[1].yerr = None /\ zoom_drawn[1].yerr = None
  /\ ret = <<"gp_plot", "zoom_plot">>

\* C9: the white-noise adjustment changes nothing: at every point of plot_psd
\* every component curve of the model holds the values it held on entry, the
\* curve drawn for a WhiteNoise component is its curve on entry, and after the
\* loop both aggregates are the sums of the curves on entry.
C9_WhiteNoiseAdjustIsIdentity ==
  fn = "plot_psd" =>
    /\ power_list = power_in
    /\ \A k \in 1..Min(idx, Len(drawn)) :
         power_in[k].name = "WhiteNoise" => drawn[k].y = power_in[k].power
    /\ (LoopDone =>
          /\ full_power = CurveSum(power_in, freq_size, AnyName)
          /\ nobump_power = CurveSum(power_in, freq_size, NotBump))

C9_Witness ==
  /\ fn = "plot_psd" /\ pc = "done" /\ Len(power_in) = 2
  /\ power_in[1].name = "WhiteNoise" /\ power_in[1].power = <<1, 1>>
  /\ power_in[2].name = "Granulation" /\ power_in[2].power = <<0, 1>>
  /\ power_list = power_in /\ drawn[1].y = <<1, 1>>
  /\ full_power = <<1, 2>> /\ nobump_power = <<1, 2>>

\* The index of the first component whose name the dictionaries lack, 0 if
\* there is none.
FirstUnknown ==
  IF \E k \in DOMAIN power_in : power_in[k].name \notin KnownNames
  THEN CHOOSE k \in DOMAIN power_in :
         /\ power_in[k].name \notin KnownNames
         /\ \A j \in 1..(k - 1) : power_in[j].name \in KnownNames
  ELSE 0

\* C10: a component of a name outside the three known ones makes plot_psd fail
\* with KeyError and return no figure; when it fails the power of that
\* component is in both aggregates already, the components before it are
\* accumulated and drawn, those after it are neither accumulated nor drawn.
C10_UnknownNameFailsAfterAccumulating ==
  fn = "plot_psd" =>
    LET u == FirstUnknown
        upto == SubSeq(power_in, 1, u)
    IN /\ (u > 0 =>
             /\ ret = <<>> /\ pc \in {"psd_loop", "failed"} /\ idx < u
             /\ (pc = "failed" => exc = "KeyError"))
       /\ (exc = "KeyError" =>
             /\ u > 0 /\ pc = "failed" /\ ret = <<>> /\ idx = u - 1
             /\ full_power = CurveSum(upto, freq_size, AnyName)
             /\ nobump_power = CurveSum(upto, freq_size, NotBump)
             /\ Len(drawn) = u - 1
             /\ \A k \in 1..(u - 1) :
                  drawn[k].kind = "component" /\ drawn[k].y = power_in[k].power)

C10_Witness ==
  /\ fn = "plot_psd" /\ pc = "failed" /\ exc = "KeyError" /\ ret = <<>>
  /\ Len(power_in) = 2 /\ idx = 1
  /\ power_in[1].name = "OscillationBump" /\ power_in[1].power = <<1, 0>>
  /\ power_in[2].name = "Other" /\ power_in[2].power = <<0, 1>>
  /\ full_power = <<1, 1>> /\ nobump_power = <<0, 1>> /\ Len(drawn) = 1

\* C4: with include_data and parseval_norm, for an empirical power of positive
\* sum on a uniform grid of at least 2 points, the scaled curve is
\* power * variance / sum(power) / resolution at every index, with no division
\* by the number of samples, so that sum(scaled) * resolution is the variance
\* of the flux, (n * sum(x^2) - sum(x)^2) / n^2 over its n samples.
C4_ParsevalSumIsVariance ==
  (Normalized /\ parseval_norm /\ RSum(ls_power)[1] > 0) =>
    LET n == Len(flux)
        sumsq == ISum([i \in DOMAIN flux |-> flux[i] * flux[i]])
        variance == Norm(n * sumsq - ISum(flux) * ISum(flux), n * n)
        resolution == RSub(freq2[2], freq2[1])
    IN /\ Len(freq2) >= 2 /\ Len(power) = Len(ls_power)
       /\ RMul(RSum(power), resolution) = variance
       /\ \A i \in DOMAIN power :
            RMul(RMul(power[i], RSum(ls_power)), resolution)
              = RMul(ls_power[i], variance)

C4_Witness ==
  /\ Normalized /\ parseval_norm /\ pc = "done"
  /\ flux = <<-1, 2>> /\ ls_power = <<Rat(1), Rat(0), Rat(1), Rat(1)>>
  /\ freq2[1] = <<1, 2>> /\ freq2[2] = <<1, 1>>
  /\ power = <<<<3, 2>>, <<0, 1>>, <<3, 2>>, <<3, 2>>>>

\* C5: with include_data and without parseval_norm, the scaled curve is
\* power / n_samples at every index, n_samples the number of time samples,
\* whatever the grid and the sum of the power are.
C5_PerSampleIsPowerOverSize ==
  (Normalized /\ ~parseval_norm) =>
    /\ Len(power) = Len(ls_power)
    /\ \A i \in DOMAIN power :
         /\ ~IsNaN(power[i])
         /\ RMul(power[i], Rat(Len(flux))) = ls_power[i]

C5_Witness ==
  /\ Normalized /\ ~parseval_norm /\ pc = "done"
  /\ Len(flux) = 2 /\ ls_power = <<Rat(1), Rat(0), Rat(1), Rat(1)>>
  /\ power = <<<<1, 2>>, <<0, 1>>, <<1, 2>>, <<1, 2>>>>

\* The empirical curves handed to the axes, in order.
DataDraws == SelectSeq(drawn, LAMBDA d : d.kind = "data")

\* C6 as stated: with include_data, the empirical curve that reaches the plot
\* is the smoothed one.
C6_OnlySmoothedCurveIsDrawn ==
  (fn = "plot_psd" /\ include_data /\ pc = "done") =>
    \A k \in DOMAIN DataDraws : DataDraws[k].y = Convolve(power)

\* The boxcar of window 10 at index i of curve s: a tenth of the samples at
\* most 4 away plus a twentieth of the two samples 5 away, those that exist.
Boxcar10(s, i) ==
  RAdd(RMul(<<1, 10>>,
            RSum([j \in DOMAIN s |->
                    IF Abs(j - i) <= 4 THEN s[j] ELSE Rat(0)])),
       RMul(<<1, 20>>,
            RSum([j \in DOMAIN s |->
                    IF Abs(j - i) = 5 THEN s[j] ELSE Rat(0)])))

\* C6, amended: with include_data, after normalisation the scaled empirical
\* curve is drawn twice, first as it is and then smoothed by a boxcar of
\* window 10; the component curves and the two aggregates are drawn as
\* accumulated, unsmoothed.
C6_RawAndSmoothedCurveAreDrawn ==
  (fn = "plot_psd" /\ include_data /\ pc \in {"psd_return", "done"}) =>
    LET n == Len(power_in)
    IN /\ Len(DataDraws) = 2
       /\ DataDraws[1] = drawn[n + 3] /\ DataDraws[2] = drawn[n + 5]
       /\ DataDraws[1].y = power
       /\ Len(DataDraws[2].y) = Len(power)
       /\ \A i \in DOMAIN power :
            DataDraws[2].y[i] = Boxcar10(power, i)
       /\ \A k \in 1..n : drawn[k].y = power_in[k].power
       /\ drawn[n + 1].y = nobump_power /\ drawn[n + 2].y = full_power

C6_Witness ==
  /\ fn = "plot_psd" /\ include_data /\ ~parseval_norm /\ pc = "done"
  /\ Len(flux) = 1
  /\ ls_power = <<Rat(1), Rat(0), Rat(0), Rat(0), Rat(0), Rat(1), Rat(1)>>
  /\ DataDraws[1].y = ls_power
  /\ DataDraws[2].y = <<<<3, 20>>, <<1, 4>>, <<3, 10>>, <<3, 10>>, <<3, 10>>,
                        <<1, 4>>, <<1, 5>>>>

====
